---- MODULE Spec2Model ----
(***************************************************************************)
(* A model of the RESP key-value server: the keyspace of kv_store.rs and   *)
(* the per-connection session of protocol.rs (Response::process_command,   *)
(* queue_command, exec_command).                                           *)
(*                                                                         *)
(* Strings that the code inspects (keys, payloads, options, numbers) are   *)
(* sequences of one-character strings, so that parsing and formatting are  *)
(* computed.  An Option<T> is a sequence of length at most one: None is    *)
(* <<>> and Some(x) is <<x>>.                                              *)
(***************************************************************************)
EXTENDS Integers, Sequences, FiniteSets, TLC

\* ------------------------------------------------------------------ bounds

\* The clock runs over 0..MaxTime.
MaxTime == 3

\* A transaction queue holds at most MaxQueue commands.
MaxQueue == 2

\* A client sends at most MaxFrames frames.
MaxFrames == 3

\* The batch writer of resp.rs is called at most MaxCalls times on one
\* Response, each time with at most MaxBatch commands.
MaxCalls == 2

MaxBatch == 2

\* The single-file server takes an INCR while the counter is below MaxCount.
MaxCount == 7

\* The width in bits that stands for the 64 bits of an i64: the signed
\* integers of the model run from I64Min to I64Max and wrap at that width.
I64Bits == 8

\* ------------------------------------------------------------ Option<T>

None == <<>>

Some(x) == <<x>>

IsSome(o) == o # <<>>

Unwrap(o) == o[1]

\* ------------------------------------------------- strings and numbers

Digits == <<"0", "1", "2", "3", "4", "5", "6", "7", "8", "9">>

IsDigit(ch) == \E i \in 1..10 : Digits[i] = ch

DigitVal(ch) == (CHOOSE i \in 1..10 : Digits[i] = ch) - 1

AllDigits(s) == Len(s) > 0 /\ \A i \in 1..Len(s) : IsDigit(s[i])

RECURSIVE DigitsVal(_)
DigitsVal(s) ==
    IF Len(s) = 0 THEN 0
    ELSE 10 * DigitsVal(SubSeq(s, 1, Len(s) - 1)) + DigitVal(s[Len(s)])

\* i64::MAX and i64::MIN.
I64Max == 2 ^ (I64Bits - 1) - 1

I64Min == 0 - 2 ^ (I64Bits - 1)

\* The value to parse lies within the range of an i64.
InI64(n) == IF I64Min <= n /\ n <= I64Max THEN Some(n) ELSE None

\* str::parse::<i64>: an optional sign, then one or more decimal digits
\* that spell a number within the range of an i64.
ParseI64(s) ==
    IF Len(s) > 1 /\ s[1] = "-" /\ AllDigits(Tail(s)) THEN InI64(0 - DigitsVal(Tail(s)))
    ELSE IF Len(s) > 1 /\ s[1] = "+" /\ AllDigits(Tail(s)) THEN InI64(DigitsVal(Tail(s)))
    ELSE IF AllDigits(s) THEN InI64(DigitsVal(s))
    ELSE None

\* str::parse::<u64>: an optional plus sign, then one or more decimal digits.
ParseU64(s) ==
    IF Len(s) > 1 /\ s[1] = "+" /\ AllDigits(Tail(s)) THEN Some(DigitsVal(Tail(s)))
    ELSE IF AllDigits(s) THEN Some(DigitsVal(s))
    ELSE None

RECURSIVE Decimal(_)
Decimal(n) ==
    IF n < 10 THEN <<Digits[n + 1]>>
    ELSE Decimal(n \div 10) \o <<Digits[(n % 10) + 1]>>

\* i64::to_string and the {} formatting of an integer.
to_string(n) == IF n < 0 THEN <<"-">> \o Decimal(0 - n) ELSE Decimal(n)

LowerCase ==
    <<"a", "b", "c", "d", "e", "f", "g", "h", "i", "j", "k", "l", "m", "n", "o", "p", "q", "r", "s", "t", "u", "v", "w", "x", "y", "z">>

UpperCase ==
    <<"A", "B", "C", "D", "E", "F", "G", "H", "I", "J", "K", "L", "M", "N", "O", "P", "Q", "R", "S", "T", "U", "V", "W", "X", "Y", "Z">>

UpperOf(ch) ==
    IF \E i \in 1..Len(LowerCase) : LowerCase[i] = ch
    THEN UpperCase[CHOOSE i \in 1..Len(LowerCase) : LowerCase[i] = ch]
    ELSE ch

LowerOf(ch) ==
    IF \E i \in 1..Len(UpperCase) : UpperCase[i] = ch
    THEN LowerCase[CHOOSE i \in 1..Len(UpperCase) : UpperCase[i] = ch]
    ELSE ch

\* str::to_uppercase on the option argument of SET.
ToUppercase(s) == [i \in 1..Len(s) |-> UpperOf(s[i])]

\* str::to_lowercase on the section argument of INFO.
ToLowercase(s) == [i \in 1..Len(s) |-> LowerOf(s[i])]

\* ------------------------------------------------------- reply encoding
\* Response::write: one encoded frame per call.  Fixed texts ("OK", an
\* error message, the line terminator) are single tokens; payloads and
\* numbers are spelled out character by character.

CRLF == "\r\n"

SimpleString(content) == <<"+", content, CRLF>>

BulkString(content) == (<<"$">> \o to_string(Len(content)) \o <<CRLF>>) \o content \o <<CRLF>>

NullBulkString == <<"$-1\r\n">>

Integer(num) == (<<":">> \o to_string(num)) \o <<CRLF>>

SimpleError(content) == <<"-", content, CRLF>>

ArrayHeader(cnt) == (<<"*">> \o to_string(cnt)) \o <<CRLF>>

\* ------------------------------------------------------------- keyspace

\* KvItem::new at clock instant t.
\* KvItem::new that drops the expiry it is given.
KvItemNew_no_expiry(val, expire_mills, t) ==
    [val |-> val, expire_at |-> None]

KvItemNew(val, expire_mills, t) ==
    [val |-> val,
     expire_at |-> IF IsSome(expire_mills) THEN Some(t + Unwrap(expire_mills)) ELSE None]

\* KvStore::insert: HashMap::insert replaces any record of the key.
insert(its, key, val) ==
    [x \in (DOMAIN its) \cup {key} |-> IF x = key THEN val ELSE its[x]]

\* KvStore::get_clone at clock instant t.
get_clone(its, key, t) ==
    IF key \in DOMAIN its
    THEN IF IsSome(its[key].expire_at)
         THEN IF Unwrap(its[key].expire_at) > t THEN Some(its[key]) ELSE None
         ELSE Some(its[key])
    ELSE None

\* do_action with the expiry comparison the other way round.
do_action_flipped(its, key, t) ==
    IF key \in DOMAIN its
    THEN IF IsSome(its[key].expire_at) /\ Unwrap(its[key].expire_at) <= t
         THEN Some(Some(its[key]))
         ELSE None
    ELSE Some(None)

\* KvStore::do_action at clock instant t: the argument the callback is
\* invoked with, Some(Some(item)) or Some(None); None when the callback is
\* not invoked at all.
do_action(its, key, t) ==
    IF key \in DOMAIN its
    THEN IF IsSome(its[key].expire_at) /\ Unwrap(its[key].expire_at) > t
         THEN Some(Some(its[key]))
         ELSE None
    ELSE Some(None)

\* ---------------------------------------------------------- server info

\* ServerInfo.id, chosen at startup outside this code; a short stand-in.
ServerId == <<"i", "d">>

\* ServerInfo::to_string for role master and replication_offset 0.
ServerInfoToString ==
    <<"#", " ", "R", "e", "p", "l", "i", "c", "a", "t", "i", "o", "n", "\r", "\n", "r", "o", "l", "e", ":", "m", "a", "s", "t", "e", "r", "\r", "\n", "m", "a", "s", "t", "e", "r", "_", "r", "e", "p", "l", "_", "o", "f", "f", "s", "e", "t", ":", "0", "\r", "\n", "m", "a", "s", "t", "e", "r", "_", "r", "e", "p", "l", "i", "d", ":">>
        \o ServerId

\* --------------------------------------------------------------- commands
\* Command {name, args}: name is the upper-cased first element of the
\* frame, args the remaining elements.

Command(name, args) == [name |-> name, args |-> args]

\* ------------------------------------------------------------ frame reader
\* Request::read_command over the bytes the client has sent.  The stream
\* is a sequence of characters that ends where the client closed it.

\* char::is_whitespace, for the characters that occur.
Whitespace == {" ", "\t", "\n", "\r"}

RECURSIVE trim_end(_)
trim_end(s) ==
    IF Len(s) > 0 /\ s[Len(s)] \in Whitespace THEN trim_end(SubSeq(s, 1, Len(s) - 1)) ELSE s

RECURSIVE trim_start(_)
trim_start(s) ==
    IF Len(s) > 0 /\ s[1] \in Whitespace THEN trim_start(Tail(s)) ELSE s

trim(s) == trim_start(trim_end(s))

\* The length of the first word of s, which does not start with whitespace.
WordLen(s) ==
    IF \E i \in 1..Len(s) : s[i] \in Whitespace
    THEN (CHOOSE i \in 1..Len(s) : s[i] \in Whitespace /\ \A j \in 1..(i - 1) : s[j] \notin Whitespace) - 1
    ELSE Len(s)

\* str::split_whitespace: the maximal runs of non-whitespace characters.
RECURSIVE split_whitespace(_)
split_whitespace(s) ==
    LET t == trim_start(s)
    IN  IF t = <<>> THEN <<>>
        ELSE <<SubSeq(t, 1, WordLen(t))>> \o split_whitespace(SubSeq(t, WordLen(t) + 1, Len(t)))

\* BufRead::read_line: the bytes up to and including the first line feed,
\* or all that is left when the stream ends before one.
LineLen(st) ==
    IF \E i \in 1..Len(st) : st[i] = "\n"
    THEN CHOOSE i \in 1..Len(st) : st[i] = "\n" /\ \A j \in 1..(i - 1) : st[j] # "\n"
    ELSE Len(st)

read_line(st) == [line |-> SubSeq(st, 1, LineLen(st)), rest |-> SubSeq(st, LineLen(st) + 1, Len(st))]

\* The String a sequence of characters spells.
RECURSIVE Join(_)
Join(s) == IF s = <<>> THEN "" ELSE Head(s) \o Join(Tail(s))

\* Command::from_str on the reader's buffer: None when indexing the parts
\* panics.
from_str(command_str) ==
    LET parts == split_whitespace(trim(command_str))
    IN  IF Len(parts) < 2
        THEN None
        ELSE Some(Command(Join(ToUppercase(parts[2])), SubSeq(parts, 3, Len(parts))))

\* What read_command returns: Ok with the decoded command, Err, or a panic;
\* and the bytes it left unread.
ReadResult(kind, command, st) == [kind |-> kind, command |-> command, stream |-> st]

\* The element loop of read_command, with cnt iterations to go.
RECURSIVE read_elements(_, _, _)
read_elements(buf, st, cnt) ==
    IF cnt = 0
    THEN IF IsSome(from_str(buf))
         THEN ReadResult("ok", Unwrap(from_str(buf)), st)
         ELSE ReadResult("panic", Command("", <<>>), st)
    ELSE IF st = <<>>
    THEN ReadResult("err", Command("", <<>>), st)
    ELSE LET l == read_line(st)
         IN  IF l.line[1] = "$"
             THEN LET len == ParseU64(trim_end(Tail(l.line)))
                  IN  IF len = None
                      THEN ReadResult("err", Command("", <<>>), l.rest)
                      ELSE IF Unwrap(len) = 0
                      THEN read_elements(buf, l.rest, cnt - 1)
                      ELSE IF l.rest = <<>>
                      THEN ReadResult("err", Command("", <<>>), l.rest)
                      ELSE read_elements(buf \o read_line(l.rest).line, read_line(l.rest).rest, cnt - 1)
             ELSE ReadResult("panic", Command("", <<>>), l.rest)

\* Request::read_command.
read_command(st) ==
    IF st = <<>>
    THEN ReadResult("err", Command("", <<>>), st)
    ELSE LET l == read_line(st)
             head == trim_end(l.line)
         IN  IF head = <<>>
             THEN ReadResult("panic", Command("", <<>>), l.rest)
             ELSE IF ParseU64(Tail(head)) = None
             THEN ReadResult("err", Command("", <<>>), l.rest)
             ELSE read_elements(l.line, l.rest, Unwrap(ParseU64(Tail(head))))

\* ------------------------------------------------------ command handlers

VARIABLES
    overflow_checks,    \* the build: whether integer overflow panics (else it wraps)
    poisoned            \* a thread panicked while it held the keyspace locks

\* The build and the health of the keyspace locks.
bvars == <<overflow_checks, poisoned>>

\* The get_action callback of GET: the frames it writes, given how
\* do_action invoked it.
get_action(call) ==
    IF IsSome(call)
    THEN IF IsSome(Unwrap(call))
         THEN <<BulkString(Unwrap(Unwrap(call)).val)>>
         ELSE <<NullBulkString>>
    ELSE <<>>

Ok(num) == [ok |-> TRUE, num |-> num, err |-> ""]

Err(msg) == [ok |-> FALSE, num |-> 0, err |-> msg]

\* num += 1 panicked: the callback never returned.
AddOverflow == [ok |-> FALSE, num |-> 0, err |-> "attempt to add with overflow"]

\* num += 1 on an i64: past i64::MAX it panics in a build with overflow
\* checks and wraps to i64::MIN in a build without.
AddOne(num) ==
    IF num + 1 > I64Max
    THEN IF overflow_checks THEN AddOverflow ELSE Ok(I64Min)
    ELSE Ok(num + 1)

\* The incr_action callback of INCR: incr_result starts as Ok(0) and is
\* assigned only when do_action invokes the callback.
incr_action(call) ==
    IF IsSome(call)
    THEN IF IsSome(Unwrap(call))
         THEN IF IsSome(ParseI64(Unwrap(Unwrap(call)).val))
              THEN AddOne(Unwrap(ParseI64(Unwrap(Unwrap(call)).val)))
              ELSE Err("ERR value is not an integer or out of range")
         ELSE Ok(1)
    ELSE Ok(0)

\* What one call of exec_command does up to the end of its first keyspace
\* lock scope: the keyspace it leaves, the frames it writes, the INCR
\* write-back it still has to do (pending), whether it panicked and
\* whether it returned an Err.
Outcome(its, frames) ==
    [items |-> its, frames |-> frames, pending |-> None, panic |-> FALSE, err |-> FALSE,
     poison |-> FALSE]

Panic(its) ==
    [items |-> its, frames |-> <<>>, pending |-> None, panic |-> TRUE, err |-> FALSE,
     poison |-> FALSE]

\* A panic while the write guards of the store and of its map are held:
\* unwinding drops the guards and leaves both locks poisoned.
PanicLocked(its) ==
    [items |-> its, frames |-> <<>>, pending |-> None, panic |-> TRUE, err |-> FALSE,
     poison |-> TRUE]

\* kv_store.write().unwrap() and items.write().unwrap(): taking a poisoned
\* lock panics; r is what the handler does once it holds the lock.
Locked(its, r) == IF poisoned THEN Panic(its) ELSE r

\* exec_command returned Err("invalid state for exec command").
InvalidState(its) ==
    [items |-> its, frames |-> <<>>, pending |-> None, panic |-> FALSE, err |-> TRUE,
     poison |-> FALSE]

\* exec_set storing the value before it looks at the options.
exec_set_store_first(command, its, t) ==
    IF Len(command.args) < 2
    THEN Outcome(its, <<SimpleError("ERR wrong number of arguments for 'set' command")>>)
    ELSE LET key == command.args[1]
             val == command.args[2]
             stored == insert(its, key, KvItemNew(val, None, t))
         IN  IF Len(command.args) > 2
             THEN IF ToUppercase(command.args[3]) = <<"P", "X">>
                  THEN LET expire_mills == IF Len(command.args) >= 4
                                           THEN ParseU64(command.args[4])
                                           ELSE None
                       IN  IF IsSome(expire_mills)
                           THEN Locked(its, Outcome(insert(its, key, KvItemNew(val, expire_mills, t)),
                                                    <<SimpleString("OK")>>))
                           ELSE Outcome(stored, <<SimpleError("ERR invalid expire time")>>)
                  ELSE Outcome(stored, <<SimpleError("ERR unknown option for 'set' command")>>)
             ELSE Locked(its, Outcome(stored, <<SimpleString("OK")>>))

exec_set(command, its, t) ==
    IF Len(command.args) < 2
    THEN Outcome(its, <<SimpleError("ERR wrong number of arguments for 'set' command")>>)
    ELSE LET key == command.args[1]
             val == command.args[2]
         IN  IF Len(command.args) > 2
             THEN IF ToUppercase(command.args[3]) = <<"P", "X">>
                  THEN LET expire_mills == IF Len(command.args) >= 4
                                           THEN ParseU64(command.args[4])
                                           ELSE None
                       IN  IF IsSome(expire_mills)
                           THEN Locked(its, Outcome(insert(its, key, KvItemNew(val, expire_mills, t)),
                                                    <<SimpleString("OK")>>))
                           ELSE Outcome(its, <<SimpleError("ERR invalid expire time")>>)
                  ELSE Outcome(its, <<SimpleError("ERR unknown option for 'set' command")>>)
             ELSE Locked(its, Outcome(insert(its, key, KvItemNew(val, None, t)),
                                      <<SimpleString("OK")>>))

exec_get(command, its, t) ==
    IF Len(command.args) = 0
    THEN Outcome(its, <<SimpleError("ERR wrong number of arguments for 'get' command")>>)
    ELSE Locked(its, Outcome(its, get_action(do_action(its, command.args[1], t))))

exec_incr(command, its, t) ==
    IF Len(command.args) = 0
    THEN Outcome(its, <<SimpleError("ERR wrong number of arguments for 'incr' command")>>)
    ELSE LET incr_result == incr_action(do_action(its, command.args[1], t))
         IN  Locked(its,
                 IF incr_result = AddOverflow
                 THEN PanicLocked(its)
                 ELSE IF incr_result.ok
                 THEN [items |-> its, frames |-> <<>>,
                       pending |-> Some([key |-> command.args[1], num |-> incr_result.num]),
                       panic |-> FALSE, err |-> FALSE, poison |-> FALSE]
                 ELSE Outcome(its, <<SimpleError(incr_result.err)>>))

exec_info(command, its) ==
    IF Len(command.args) = 0
    THEN Panic(its)
    ELSE IF ToLowercase(command.args[1]) = <<"r", "e", "p", "l", "i", "c", "a", "t", "i", "o", "n">>
         THEN Outcome(its, <<BulkString(ServerInfoToString)>>)
         ELSE Panic(its)

\* exec_txn without its EXEC and DISCARD arms: both names fall through to
\* the default arm of the match.
exec_txn_unknown(command, its) ==
    IF command.name = "MULTI"
    THEN Outcome(its, <<SimpleString("OK")>>)
    ELSE Outcome(its, <<SimpleError("ERR unknown command")>>)

\* The MULTI, EXEC and DISCARD arms of exec_command.
exec_txn(command, its) ==
    CASE command.name = "MULTI" -> Outcome(its, <<SimpleString("OK")>>)
      [] command.name = "EXEC" -> Outcome(its, <<SimpleError("ERR EXEC without MULTI")>>)
      [] command.name = "DISCARD" -> Outcome(its, <<SimpleError("ERR DISCARD without MULTI")>>)

exec_command(command, st, its, t) ==
    CASE st # "Exec" -> InvalidState(its)
      [] command.name = "COMMAND" -> Outcome(its, <<ArrayHeader(0)>>)
      [] command.name = "PING" -> Outcome(its, <<SimpleString("PONG")>>)
      [] command.name = "ECHO" ->
            IF Len(command.args) = 0
            THEN Outcome(its, <<SimpleError("ERR wrong number of arguments for 'echo' command")>>)
            ELSE Outcome(its, <<BulkString(command.args[1])>>)
      [] command.name = "SET" -> exec_set(command, its, t)
      [] command.name = "GET" -> exec_get(command, its, t)
      [] command.name = "INCR" -> exec_incr(command, its, t)
      [] command.name \in {"MULTI", "EXEC", "DISCARD"} -> exec_txn(command, its)
      [] command.name = "INFO" -> exec_info(command, its)
      [] OTHER -> Outcome(its, <<SimpleError("ERR unknown command")>>)

\* The second lock scope of INCR: the write-back of the new number.
incr_write_back(its, key, num, t) == insert(its, key, KvItemNew(to_string(num), None, t))

\* queue_command without its DISCARD arm: DISCARD is queued like any other
\* command.
queue_command_no_discard(command, cmds) ==
    CASE command.name = "EXEC" ->
            [commands |-> cmds, err |-> FALSE,
             frames |-> <<ArrayHeader(IF IsSome(cmds) THEN Len(Unwrap(cmds)) ELSE 0)>>]
      [] OTHER ->
            IF IsSome(cmds)
            THEN [commands |-> Some(Append(Unwrap(cmds), command)), err |-> FALSE,
                  frames |-> <<SimpleString("QUEUED")>>]
            ELSE [commands |-> cmds, err |-> TRUE, frames |-> <<>>]

\* What queue_command writes and the queue it leaves (state is Queue).
queue_command(command, cmds) ==
    CASE command.name = "EXEC" ->
            [commands |-> cmds, err |-> FALSE,
             frames |-> <<ArrayHeader(IF IsSome(cmds) THEN Len(Unwrap(cmds)) ELSE 0)>>]
      [] command.name = "DISCARD" ->
            [commands |-> cmds, err |-> FALSE, frames |-> <<SimpleString("OK")>>]
      [] OTHER ->
            IF IsSome(cmds)
            THEN [commands |-> Some(Append(Unwrap(cmds), command)), err |-> FALSE,
                  frames |-> <<SimpleString("QUEUED")>>]
            ELSE [commands |-> cmds, err |-> TRUE, frames |-> <<>>]

\* ------------------------------------------------------------------ state

Conns == {"c1", "c2"}

K == <<"k">>

\* The commands the client of a connection sends.  c1 is the session under
\* observation; c2 is a plain writer of the same key.
Inputs(c) ==
    IF c = "c1"
    THEN {Command("SET", <<K, <<"5">>>>),
          Command("SET", <<K, <<"a", "b", "c">>>>),
          Command("SET", <<K, <<"5">>, <<"p", "x">>, <<"2">>>>),
          Command("SET", <<K, <<"a", "b", "c">>, <<"P", "X">>, <<"2">>>>),
          Command("GET", <<K>>),
          Command("INCR", <<K>>),
          Command("MULTI", <<>>),
          Command("EXEC", <<>>),
          Command("DISCARD", <<>>)}
    ELSE {Command("SET", <<K, <<"7">>>>)}

VARIABLES
    now,        \* the monotonic clock (Instant::now)
    items,      \* KvStore.items: the map from key to KvItem
    state,      \* Response.state of each connection: "Exec" or "Queue"
    commands,   \* Response.commands of each connection: Option<Vec<Command>>
    buffer,     \* Response.buffer of each connection: the frames not yet sent
    sent,       \* what the last send of each connection wrote to the socket
    pc,         \* where each connection's thread is
    run,        \* the queued commands an EXEC still has to replay
    pending,    \* the INCR write-back a connection still has to do
    cur,        \* the command process_command is handling, once it spans steps
    hist,       \* the last two commands handled on the observed connection (history)
    snap,       \* the keyspace at the last MULTI of the observed connection (history)
    stream,     \* the bytes the observed connection's reader has not consumed yet
    request,    \* Request.command and what the last read_command returned
    wire,       \* the frames the client of the observed connection sent (history)
    nread,      \* the number of read_command calls so far (history)
    probe,      \* what the two read paths of KvStore returned for one key
    store_lock, \* the thread that holds the write guard of RwLock<KvStore>
    map_lock,   \* the thread that holds the write guard of KvStore.items
    lk,         \* each thread's place at the locks: "none", "want", "store" or "both"
    job,        \* the command a thread has received and not yet executed
    resp_buffer,  \* resp.rs: Response.buffer, the encoded replies pushed so far
    resp_sent,    \* resp.rs: what the last send wrote to the socket
    resp_own,     \* resp.rs: the replies of the commands of the last exec_command (history)
    resp_calls,   \* resp.rs: the number of exec_command calls on the Response (history)
    resp_pc,      \* resp.rs: "ready", or "panicked" once a call has panicked
    kvs,          \* main.rs: KV.kvs, the map from key to Value
    kvs_poisoned, \* main.rs: the Mutex of KV.kvs is poisoned
    mpc,          \* main.rs: where each connection's thread is
    mcmd,         \* main.rs: the command a thread is handling or has handled last
    mreply,       \* main.rs: the frames written for that command
    mobs          \* main.rs: the record of the key before and after that command and
                  \* what get_del hands to the callback (history)

vars == <<now, items, state, commands, buffer, sent, pc, run, pending, cur, hist, snap,
          stream, request, wire, nread, probe, overflow_checks, poisoned,
          store_lock, map_lock, lk, job,
          resp_buffer, resp_sent, resp_own, resp_calls, resp_pc,
          kvs, kvs_poisoned, mpc, mcmd, mreply, mobs>>

\* The batch writer of resp.rs and the single-file server of main.rs.
wvars == <<resp_buffer, resp_sent, resp_own, resp_calls, resp_pc>>
mvars == <<kvs, kvs_poisoned, mpc, mcmd, mreply, mobs>>

\* The variables of the components next to the sessions of protocol.rs.
xvars == <<probe, store_lock, map_lock, lk, job, wvars, mvars>>

\* No thread holds or wants a lock.
InitLocks ==
    /\ store_lock = None
    /\ map_lock = None
    /\ lk = [c \in Conns |-> "none"]
    /\ job = [c \in Conns |-> None]

\* Response::new of resp.rs.
InitResp ==
    /\ resp_buffer = <<>>
    /\ resp_sent = <<>>
    /\ resp_own = <<>>
    /\ resp_calls = 0
    /\ resp_pc = "ready"

\* KV::new of main.rs and the threads main spawns.
InitMain ==
    /\ kvs = <<>>
    /\ kvs_poisoned = FALSE
    /\ mpc = [c \in Conns |-> "read"]
    /\ mcmd = [c \in Conns |-> None]
    /\ mreply = [c \in Conns |-> <<>>]
    /\ mobs = [c \in Conns |-> [pre |-> None, cb_arg |-> None, post |-> None]]

\* The reader of the observed connection.
rvars == <<stream, request, wire, nread>>

\* Everything but the reader, as it is after construction.
InitServer ==
    /\ now = 0
    /\ items = <<>>
    /\ state = [c \in Conns |-> "Exec"]
    /\ commands = [c \in Conns |-> None]
    /\ buffer = [c \in Conns |-> <<>>]
    /\ sent = [c \in Conns |-> <<>>]
    /\ pc = [c \in Conns |-> "read"]
    /\ run = [c \in Conns |-> <<>>]
    /\ pending = [c \in Conns |-> None]
    /\ cur = [c \in Conns |-> None]
    /\ hist = <<>>
    /\ snap = None
    /\ poisoned = FALSE

\* Request::new.
InitRequest ==
    /\ request = [command |-> Command("", <<>>), result |-> "none"]
    /\ nread = 0

Init ==
    /\ InitServer
    /\ InitRequest
    /\ stream = <<>>
    /\ wire = <<>>
    /\ probe = None
    /\ InitLocks
    /\ InitResp
    /\ InitMain
    /\ overflow_checks = TRUE

\* ---------------------------------------------------------------- history
\* hist is the history of the observed session: its last two handled
\* commands, none older than the last write of another connection, the
\* last MULTI or the last EXEC batch.  The reply to the last one is
\* sent[Observed].  snap is the keyspace as the last MULTI of the observed
\* session found it, for as long as no other connection has written and
\* the transaction has not been executed.

Observed == "c1"

\* The record that a reading command (GET, INCR) finds stored under its key.
PreOf(command) ==
    IF command.name \in {"GET", "INCR"} /\ Len(command.args) > 0
       /\ command.args[1] \in DOMAIN items
    THEN Some(items[command.args[1]])
    ELSE None

\* A command as process_command receives it: the mode it is handled in,
\* and for a directly executed keyspace command the clock and the record.
Entry(c, command) ==
    [cmd |-> command, mode |-> state[c],
     at |-> IF state[c] = "Exec" /\ command.name \in {"SET", "GET", "INCR"} THEN now ELSE 0,
     pre |-> IF state[c] = "Exec" THEN PreOf(command) ELSE None,
     batch |-> IF state[c] = "Queue" /\ command.name = "EXEC" /\ IsSome(commands[c])
               THEN Unwrap(commands[c])
               ELSE <<>>]

IsBatch(e) == e.cmd.name = "EXEC" /\ e.mode = "Queue"

Last2(h) == IF Len(h) > 2 THEN SubSeq(h, Len(h) - 1, Len(h)) ELSE h

\* The history after connection c finished handling entry e and left the
\* keyspace as its.
HistDone(c, e, its) ==
    IF c = Observed
    THEN IF \/ e.cmd.name = "MULTI" /\ e.mode = "Exec"
            \/ Len(hist) > 0 /\ IsBatch(hist[Len(hist)])
         THEN <<e>>
         ELSE Last2(Append(hist, e))
    ELSE IF its # items THEN <<>> ELSE hist

\* The history while connection c is still inside a handler.
HistStep(c, its) == IF c # Observed /\ its # items THEN <<>> ELSE hist

\* The snapshot after a step of connection c on entry e that leaves the
\* keyspace as its.
SnapStep(c, e, its) ==
    IF c = Observed
    THEN IF e.mode = "Exec"
         THEN IF e.cmd.name = "MULTI" THEN Some(items) ELSE None
         ELSE IF e.cmd.name = "EXEC" THEN None ELSE snap
    ELSE IF its # items THEN None ELSE snap

\* ------------------------------------------------------------------ steps

\* Response::send at the end of process_command, after which the thread
\* waits for the next command.
Finish(c, e, frames, its) ==
    /\ sent' = [sent EXCEPT ![c] = frames]
    /\ buffer' = [buffer EXCEPT ![c] = <<>>]
    /\ pc' = [pc EXCEPT ![c] = "read"]
    /\ run' = [run EXCEPT ![c] = <<>>]
    /\ pending' = [pending EXCEPT ![c] = None]
    /\ cur' = [cur EXCEPT ![c] = None]
    /\ hist' = HistDone(c, e, its)
    /\ snap' = SnapStep(c, e, its)

\* The thread of c panicked (todo!) and is gone; nothing is sent.
Die(c) ==
    /\ pc' = [pc EXCEPT ![c] = "panicked"]
    /\ UNCHANGED <<items, state, commands, buffer, sent, run, pending, cur, hist, snap>>

\* The session of c ended with an Err out of process_command.
Close(c) ==
    /\ pc' = [pc EXCEPT ![c] = "closed"]
    /\ UNCHANGED <<items, state, commands, buffer, sent, run, pending, cur, hist, snap>>

\* exec_command returned with the INCR write-back still to do.
Suspend(c, e, r, rest) ==
    /\ pc' = [pc EXCEPT ![c] = "insert"]
    /\ pending' = [pending EXCEPT ![c] = r.pending]
    /\ run' = [run EXCEPT ![c] = rest]
    /\ cur' = [cur EXCEPT ![c] = Some(e)]
    /\ buffer' = [buffer EXCEPT ![c] = buffer[c] \o r.frames]
    /\ items' = r.items
    /\ hist' = HistStep(c, r.items)
    /\ snap' = SnapStep(c, e, r.items)
    /\ UNCHANGED sent

\* process_command in state Exec.
ProcessExec(c, command) ==
    LET e == Entry(c, command)
        r == exec_command(command, state[c], items, now)
    IN  IF command.name = "MULTI"
        THEN /\ commands' = [commands EXCEPT ![c] = Some(<<>>)]
             /\ state' = [state EXCEPT ![c] = "Queue"]
             /\ items' = r.items
             /\ Finish(c, e, buffer[c] \o r.frames, r.items)
        ELSE IF r.panic
        THEN Die(c)
        ELSE IF r.err
        THEN Close(c)
        ELSE IF IsSome(r.pending)
        THEN /\ Suspend(c, e, r, <<>>)
             /\ UNCHANGED <<state, commands>>
        ELSE /\ items' = r.items
             /\ Finish(c, e, buffer[c] \o r.frames, r.items)
             /\ UNCHANGED <<state, commands>>

\* process_command in state Queue, with a command that is queued also
\* executed against the keyspace right away.
ProcessQueueEager(c, command) ==
    LET e == Entry(c, command)
        q == queue_command(command, commands[c])
        r == exec_command(command, "Exec", items, now)
    IN  IF q.err
        THEN Close(c)
        ELSE IF command.name = "EXEC"
        THEN /\ state' = [state EXCEPT ![c] = "Exec"]
             /\ commands' = [commands EXCEPT ![c] = None]
             /\ items' = items
             /\ IF IsSome(commands[c]) /\ Unwrap(commands[c]) # <<>>
                THEN /\ pc' = [pc EXCEPT ![c] = "replay"]
                     /\ run' = [run EXCEPT ![c] = Unwrap(commands[c])]
                     /\ buffer' = [buffer EXCEPT ![c] = buffer[c] \o q.frames]
                     /\ cur' = [cur EXCEPT ![c] = Some(e)]
                     /\ snap' = SnapStep(c, e, items)
                     /\ UNCHANGED <<sent, pending, hist>>
                ELSE Finish(c, e, buffer[c] \o q.frames, items)
        ELSE IF command.name = "DISCARD"
        THEN /\ state' = [state EXCEPT ![c] = "Exec"]
             /\ commands' = [commands EXCEPT ![c] = None]
             /\ items' = items
             /\ Finish(c, e, buffer[c] \o q.frames, items)
        ELSE /\ commands' = [commands EXCEPT ![c] = q.commands]
             /\ items' = r.items
             /\ Finish(c, e, buffer[c] \o q.frames, r.items)
             /\ UNCHANGED state

\* process_command in state Queue, with an EXEC that leaves the queue in
\* place.
ProcessQueueStale(c, command) ==
    LET e == Entry(c, command)
        q == queue_command(command, commands[c])
    IN  IF q.err
        THEN Close(c)
        ELSE IF command.name = "EXEC"
        THEN /\ state' = [state EXCEPT ![c] = "Exec"]
             /\ commands' = commands
             /\ items' = items
             /\ IF IsSome(commands[c]) /\ Unwrap(commands[c]) # <<>>
                THEN /\ pc' = [pc EXCEPT ![c] = "replay"]
                     /\ run' = [run EXCEPT ![c] = Unwrap(commands[c])]
                     /\ buffer' = [buffer EXCEPT ![c] = buffer[c] \o q.frames]
                     /\ cur' = [cur EXCEPT ![c] = Some(e)]
                     /\ snap' = SnapStep(c, e, items)
                     /\ UNCHANGED <<sent, pending, hist>>
                ELSE Finish(c, e, buffer[c] \o q.frames, items)
        ELSE IF command.name = "DISCARD"
        THEN /\ state' = [state EXCEPT ![c] = "Exec"]
             /\ commands' = [commands EXCEPT ![c] = None]
             /\ items' = items
             /\ Finish(c, e, buffer[c] \o q.frames, items)
        ELSE /\ commands' = [commands EXCEPT ![c] = q.commands]
             /\ items' = items
             /\ Finish(c, e, buffer[c] \o q.frames, items)
             /\ UNCHANGED state

\* process_command in state Queue.
ProcessQueue(c, command) ==
    LET e == Entry(c, command)
        q == queue_command(command, commands[c])
    IN  IF q.err
        THEN Close(c)
        ELSE IF command.name = "EXEC"
        THEN /\ state' = [state EXCEPT ![c] = "Exec"]
             /\ commands' = [commands EXCEPT ![c] = None]
             /\ items' = items
             /\ IF IsSome(commands[c]) /\ Unwrap(commands[c]) # <<>>
                THEN /\ pc' = [pc EXCEPT ![c] = "replay"]
                     /\ run' = [run EXCEPT ![c] = Unwrap(commands[c])]
                     /\ buffer' = [buffer EXCEPT ![c] = buffer[c] \o q.frames]
                     /\ cur' = [cur EXCEPT ![c] = Some(e)]
                     /\ snap' = SnapStep(c, e, items)
                     /\ UNCHANGED <<sent, pending, hist>>
                ELSE Finish(c, e, buffer[c] \o q.frames, items)
        ELSE IF command.name = "DISCARD"
        THEN /\ state' = [state EXCEPT ![c] = "Exec"]
             /\ commands' = [commands EXCEPT ![c] = None]
             /\ items' = items
             /\ Finish(c, e, buffer[c] \o q.frames, items)
        ELSE /\ commands' = [commands EXCEPT ![c] = q.commands]
             /\ items' = items
             /\ Finish(c, e, buffer[c] \o q.frames, items)
             /\ UNCHANGED state

\* The client sends no further command to queue once MaxQueue are queued.
QueueFull(c, command) ==
    /\ state[c] = "Queue"
    /\ command.name \notin {"EXEC", "DISCARD"}
    /\ IsSome(commands[c])
    /\ Len(Unwrap(commands[c])) >= MaxQueue

\* The thread of c reads a command and hands it to process_command.
ProcessCommand(c, command) ==
    /\ pc[c] = "read"
    /\ ~QueueFull(c, command)
    /\ IF state[c] = "Exec" THEN ProcessExec(c, command) ELSE ProcessQueue(c, command)
    /\ poisoned' = (poisoned \/ (state[c] = "Exec" /\ exec_command(command, state[c], items, now).poison))
    /\ UNCHANGED <<now, overflow_checks>>

\* EXEC replays the next queued command.
ReplayNext(c) ==
    /\ pc[c] = "replay"
    /\ LET command == Head(run[c])
           r == exec_command(command, state[c], items, now)
       IN  IF r.panic
           THEN Die(c)
           ELSE IF r.err
           THEN Close(c)
           ELSE IF IsSome(r.pending)
           THEN Suspend(c, Unwrap(cur[c]), r, Tail(run[c]))
           ELSE /\ items' = r.items
                /\ IF Tail(run[c]) = <<>>
                   THEN Finish(c, Unwrap(cur[c]), buffer[c] \o r.frames, r.items)
                   ELSE /\ run' = [run EXCEPT ![c] = Tail(run[c])]
                        /\ buffer' = [buffer EXCEPT ![c] = buffer[c] \o r.frames]
                        /\ hist' = HistStep(c, r.items)
                        /\ snap' = SnapStep(c, Unwrap(cur[c]), r.items)
                        /\ UNCHANGED <<sent, pc, pending, cur>>
    /\ poisoned' = (poisoned \/ exec_command(Head(run[c]), state[c], items, now).poison)
    /\ UNCHANGED <<now, state, commands, overflow_checks>>
    /\ UNCHANGED rvars

\* The replay step of a session whose locks are taken within the step.
Replay(c) == ReplayNext(c) /\ UNCHANGED xvars

\* INCR takes the keyspace lock a second time and writes the number back.
IncrWriteBack(c) ==
    /\ pc[c] = "insert"
    /\ LET p == Unwrap(pending[c])
           its == incr_write_back(items, p.key, p.num, now)
           frames == Append(buffer[c], Integer(p.num))
       IN  IF poisoned
           THEN Die(c)
           ELSE /\ items' = its
                /\ IF run[c] = <<>>
                   THEN Finish(c, Unwrap(cur[c]), frames, its)
                   ELSE /\ pc' = [pc EXCEPT ![c] = "replay"]
                        /\ pending' = [pending EXCEPT ![c] = None]
                        /\ buffer' = [buffer EXCEPT ![c] = frames]
                        /\ hist' = HistStep(c, its)
                        /\ snap' = SnapStep(c, Unwrap(cur[c]), its)
                        /\ UNCHANGED <<sent, run, cur>>
    /\ UNCHANGED <<now, state, commands, bvars>>
    /\ UNCHANGED rvars

\* The write-back of a session whose locks are taken within the step.
IncrInsert(c) == IncrWriteBack(c) /\ UNCHANGED xvars

\* Time passes.
Tick ==
    /\ now < MaxTime
    /\ now' = now + 1
    /\ UNCHANGED <<items, state, commands, buffer, sent, pc, run, pending, cur, hist, snap>>
    /\ UNCHANGED <<rvars, xvars, bvars>>

\* No other connection is inside a handler.
Quiescent(c) == \A d \in Conns \ {c} : pc[d] \notin {"replay", "insert"}

Command1(c) ==
    /\ Quiescent(c)
    /\ \E command \in Inputs(c) : ProcessCommand(c, command)
    /\ UNCHANGED <<rvars, xvars>>

Replay1(c) == Quiescent(c) /\ Replay(c)

IncrInsert1(c) == Quiescent(c) /\ IncrInsert(c)

\* Handlers run one at a time: a connection starts or continues a handler
\* only while no other connection is inside one.
Next ==
    \/ Tick
    \/ \E c \in Conns : Command1(c)
    \/ \E c \in Conns : Replay1(c)
    \/ \E c \in Conns : IncrInsert1(c)

Spec == Init /\ [][Next]_vars

\* ------------------------------------------------- concurrent connections
\* One thread per connection; the keyspace lock is held for one call of
\* do_action or insert, so the threads interleave between any two of them.

\* The commands the clients send while both connections are busy.
ConcInputs(c) ==
    IF c = "c1"
    THEN {Command("SET", <<K, <<"5">>>>),
          Command("GET", <<K>>),
          Command("INCR", <<K>>),
          Command("MULTI", <<>>),
          Command("EXEC", <<>>)}
    ELSE {Command("SET", <<K, <<"7">>, <<"p", "x">>, <<"2">>>>),
          Command("INCR", <<K>>)}

CommandC(c) ==
    /\ \E command \in ConcInputs(c) : ProcessCommand(c, command)
    /\ UNCHANGED <<rvars, xvars>>

NextConc ==
    \/ Tick
    \/ \E c \in Conns : CommandC(c)
    \/ \E c \in Conns : Replay(c)
    \/ \E c \in Conns : IncrInsert(c)

SpecConc == Init /\ [][NextConc]_vars

\* ------------------------------------------------------- rejected commands
\* One connection that sends, next to commands that succeed, the commands
\* exec_command rejects, and INFO.

ErrInputs ==
    {Command("GET", <<>>),
     Command("INCR", <<>>),
     Command("ECHO", <<>>),
     Command("SET", <<K>>),
     Command("SET", <<K, <<"5">>, <<"E", "X">>, <<"1">>>>),
     Command("SET", <<K, <<"5">>, <<"P", "X">>, <<"x">>>>),
     Command("SET", <<K, <<"5">>, <<"p", "x">>>>),
     Command("FOO", <<K>>),
     Command("EXEC", <<>>),
     Command("DISCARD", <<>>),
     Command("SET", <<K, <<"a", "b", "c">>, <<"p", "x">>, <<"2">>>>),
     Command("SET", <<K, <<"5">>>>),
     Command("GET", <<K>>),
     Command("INCR", <<K>>),
     Command("INFO", <<<<"R", "e", "p", "l", "i", "c", "a", "t", "i", "o", "n">>>>),
     Command("INFO", <<<<"s", "e", "r", "v", "e", "r">>>>)}

CommandE ==
    /\ \E command \in ErrInputs : ProcessCommand(Observed, command)
    /\ UNCHANGED <<rvars, xvars>>

NextErr ==
    \/ Tick
    \/ CommandE
    \/ IncrInsert(Observed)

SpecErr == Init /\ [][NextErr]_vars

\* ------------------------------------------------------ the largest integer
\* The observed connection stores i64::MAX with a TTL and increments it,
\* in a build with and in a build without overflow checks; the other
\* connection goes on with its commands.

MaxInputs(c) ==
    IF c = Observed
    THEN {Command("SET", <<K, to_string(I64Max), <<"p", "x">>, <<"2">>>>),
          Command("INCR", <<K>>),
          Command("GET", <<K>>)}
    ELSE {Command("SET", <<K, <<"7">>, <<"p", "x">>, <<"2">>>>),
          Command("GET", <<K>>)}

InitMax ==
    /\ InitServer
    /\ InitRequest
    /\ stream = <<>>
    /\ wire = <<>>
    /\ probe = None
    /\ InitLocks
    /\ InitResp
    /\ InitMain
    /\ overflow_checks \in BOOLEAN

CommandM(c) ==
    /\ \E command \in MaxInputs(c) : ProcessCommand(c, command)
    /\ UNCHANGED <<rvars, xvars>>

NextMax ==
    \/ Tick
    \/ \E c \in Conns : CommandM(c)
    \/ \E c \in Conns : IncrInsert(c)

SpecMax == InitMax /\ [][NextMax]_vars

\* ---------------------------------------------------------------- the locks
\* The sessions with every lock operation as a step of its own.  A handler
\* that touches the keyspace first takes the write guard of the store
\* (kv_store.write()), then, inside insert or do_action, the write guard of
\* the map (items.write()); it does its work and drops both guards at the
\* end of the scope.  A thread that waits for inbound bytes is at "none".

\* SET has passed its argument checks.
SetAccepted(args) ==
    /\ Len(args) >= 2
    /\ Len(args) > 2 => /\ ToUppercase(args[3]) = <<"P", "X">>
                        /\ Len(args) >= 4
                        /\ IsSome(ParseU64(args[4]))

\* exec_command takes the keyspace lock for this command.
TakesLock(command) ==
    \/ command.name = "SET" /\ SetAccepted(command.args)
    \/ command.name \in {"GET", "INCR"} /\ Len(command.args) > 0

LockInputs(c) ==
    IF c = Observed
    THEN {Command("SET", <<K, to_string(I64Max), <<"p", "x">>, <<"2">>>>),
          Command("INCR", <<K>>),
          Command("MULTI", <<>>),
          Command("EXEC", <<>>)}
    ELSE {Command("GET", <<K>>),
          Command("INCR", <<K>>)}

InitLock ==
    /\ InitServer
    /\ InitRequest
    /\ stream = <<>>
    /\ wire = <<>>
    /\ probe = None
    /\ InitLocks
    /\ InitResp
    /\ InitMain
    /\ overflow_checks \in BOOLEAN

\* What a thread does next once it holds no lock: "want" when the rest of
\* its handler touches the keyspace, "none" otherwise.
WantAfter(c) ==
    IF pc'[c] = "insert" \/ (pc'[c] = "replay" /\ TakesLock(Head(run'[c])))
    THEN "want"
    ELSE "none"

\* The thread has received a command: it asks for the store lock, or
\* handles the command at once when the command needs no lock.
Receive(c, command) ==
    /\ pc[c] = "read"
    /\ lk[c] = "none"
    /\ ~QueueFull(c, command)
    /\ IF state[c] = "Exec" /\ TakesLock(command)
       THEN /\ lk' = [lk EXCEPT ![c] = "want"]
            /\ job' = [job EXCEPT ![c] = Some(command)]
            /\ UNCHANGED <<now, items, state, commands, buffer, sent, pc, run, pending, cur,
                           hist, snap, bvars>>
       ELSE /\ ProcessCommand(c, command)
            /\ lk' = [lk EXCEPT ![c] = WantAfter(c)]
            /\ job' = job
    /\ UNCHANGED <<rvars, probe, store_lock, map_lock, wvars, mvars>>

\* kv_store.write().unwrap(): blocks while the guard is held, panics when
\* the lock is poisoned.
TakeStore(c) ==
    /\ lk[c] = "want"
    /\ store_lock = None
    /\ IF poisoned
       THEN /\ Die(c)
            /\ lk' = [lk EXCEPT ![c] = "none"]
            /\ UNCHANGED store_lock
       ELSE /\ store_lock' = Some(c)
            /\ lk' = [lk EXCEPT ![c] = "store"]
            /\ UNCHANGED <<items, state, commands, buffer, sent, pc, run, pending, cur, hist, snap>>
    /\ UNCHANGED <<now, bvars, rvars, probe, map_lock, job, wvars, mvars>>

\* items.write() inside insert or do_action, and the work done under it.
TakeMap(c) ==
    /\ lk[c] = "store"
    /\ map_lock = None
    /\ map_lock' = Some(c)
    /\ lk' = [lk EXCEPT ![c] = "both"]
    /\ job' = [job EXCEPT ![c] = None]
    /\ CASE pc[c] = "read" -> ProcessCommand(c, Unwrap(job[c])) /\ UNCHANGED rvars
         [] pc[c] = "replay" -> ReplayNext(c)
         [] pc[c] = "insert" -> IncrWriteBack(c)
    /\ UNCHANGED <<probe, store_lock, wvars, mvars>>

\* The guards are dropped at the end of the scope, or by unwinding.
Release(c) ==
    /\ lk[c] = "both"
    /\ map_lock' = None
    /\ store_lock' = None
    /\ lk' = [lk EXCEPT ![c] =
                 IF pc[c] = "insert" \/ (pc[c] = "replay" /\ TakesLock(Head(run[c])))
                 THEN "want"
                 ELSE "none"]
    /\ UNCHANGED <<now, items, state, commands, buffer, sent, pc, run, pending, cur, hist, snap>>
    /\ UNCHANGED <<bvars, rvars, probe, job, wvars, mvars>>

\* EXEC replays a queued command that needs no lock.
ReplayUnlocked(c) ==
    /\ lk[c] = "none"
    /\ pc[c] = "replay"
    /\ ReplayNext(c)
    /\ lk' = [lk EXCEPT ![c] = WantAfter(c)]
    /\ UNCHANGED <<probe, store_lock, map_lock, job, wvars, mvars>>

NextLock ==
    \/ \E c \in Conns : \E command \in LockInputs(c) : Receive(c, command)
    \/ \E c \in Conns : TakeStore(c)
    \/ \E c \in Conns : TakeMap(c)
    \/ \E c \in Conns : Release(c)
    \/ \E c \in Conns : ReplayUnlocked(c)

\* The scheduler is fair to every thread and the store lock is handed to
\* every thread that keeps asking for it.
SpecLock ==
    /\ InitLock
    /\ [][NextLock]_vars
    /\ \A c \in Conns : WF_vars(TakeMap(c) \/ Release(c) \/ ReplayUnlocked(c))
    /\ \A c \in Conns : SF_vars(TakeStore(c))

\* ------------------------------------------------- the keyspace by itself
\* KvStore over any content: a store is drawn, the clock runs, and both
\* read paths are applied to a key.

Keys == {K, <<"j">>}

\* The records a store may hold: a payload, and no expiry or one at an
\* instant up to one past the end of the clock.
Records ==
    [val : {<<"5">>, <<"a", "b", "c">>},
     expire_at : {None} \cup {Some(t) : t \in 0..(MaxTime + 1)}]

Stores == UNION {[ks -> Records] : ks \in SUBSET Keys}

InitKv ==
    /\ items \in Stores
    /\ now \in 0..MaxTime
    /\ state = [c \in Conns |-> "Exec"]
    /\ commands = [c \in Conns |-> None]
    /\ buffer = [c \in Conns |-> <<>>]
    /\ sent = [c \in Conns |-> <<>>]
    /\ pc = [c \in Conns |-> "read"]
    /\ run = [c \in Conns |-> <<>>]
    /\ pending = [c \in Conns |-> None]
    /\ cur = [c \in Conns |-> None]
    /\ hist = <<>>
    /\ snap = None
    /\ InitRequest
    /\ stream = <<>>
    /\ wire = <<>>
    /\ probe = None
    /\ InitLocks
    /\ InitResp
    /\ InitMain
    /\ overflow_checks = TRUE
    /\ poisoned = FALSE

\* get_clone and do_action are called for key at the same instant.
Probe(key) ==
    /\ probe' = Some([key |-> key,
                      found |-> get_clone(items, key, now),
                      call |-> do_action(items, key, now)])
    /\ UNCHANGED <<now, items, state, commands, buffer, sent, pc, run, pending, cur, hist, snap>>
    /\ UNCHANGED <<rvars, bvars, store_lock, map_lock, lk, job, wvars, mvars>>

NextKv ==
    \/ Tick
    \/ \E key \in Keys : Probe(key)

SpecKv == InitKv /\ [][NextKv]_vars

\* ------------------------------------------------------ session on the wire
\* The observed connection is fed by the bytes of its socket: the session
\* reads a frame with read_command and hands the command to
\* process_command, until read_command fails.  The other connection sends
\* its commands meanwhile.

EOL == <<"\r", "\n">>

\* A bulk string element as the client encodes it.
BulkOf(el) == <<"$">> \o to_string(Len(el)) \o EOL \o el \o EOL

RECURSIVE BulksOf(_)
BulksOf(els) == IF els = <<>> THEN <<>> ELSE BulkOf(Head(els)) \o BulksOf(Tail(els))

\* A frame of bulk strings as the client encodes it.
Encode(els) == <<"*">> \o to_string(Len(els)) \o EOL \o BulksOf(els)

\* A well-formed frame the client sends.
Sent(els) == [els |-> els, bytes |-> Encode(els), malformed |-> FALSE]

\* A malformed frame the client sends.
Bad(bytes) == [els |-> <<>>, bytes |-> bytes, malformed |-> TRUE]

Frames ==
    {Sent(<<<<"g", "e", "t">>, K>>),
     Sent(<<<<"S", "E", "T">>, K, <<"a", " ", "b">>>>),
     Sent(<<<<"S", "E", "T">>, K, <<>>>>),
     Sent(<<<<"I", "N", "C", "R">>, K>>),
     Sent(<<<<"M", "U", "L", "T", "I">>>>),
     Sent(<<<<"E", "X", "E", "C">>>>)}

\* Malformed frames: an element that does not start with $, a length that
\* is no number, and a stream that ends after the element count, or inside
\* the payload of the last element.
BadFrames ==
    {Bad(<<"*", "1">> \o EOL \o <<"+", "P", "I", "N", "G">> \o EOL),
     Bad(<<"*", "1">> \o EOL \o <<"$", "x">> \o EOL \o <<"P", "I", "N", "G">> \o EOL),
     Bad(<<"*", "2">> \o EOL \o BulkOf(<<"G", "E", "T">>)),
     Bad(<<"*", "3">> \o EOL \o BulkOf(<<"S", "E", "T">>) \o BulkOf(K)
            \o <<"$", "5">> \o EOL \o <<"a", "b">>)}

\* The sequences of at most n well-formed frames.
GoodWires(n) == UNION {[1..m -> Frames] : m \in 0..n}

\* What a client sends before it closes: at most MaxFrames frames, of which
\* only the last may be malformed.
Wires ==
    GoodWires(MaxFrames) \cup {Append(w, b) : w \in GoodWires(MaxFrames - 1), b \in BadFrames}

RECURSIVE BytesOf(_)
BytesOf(w) == IF w = <<>> THEN <<>> ELSE Head(w).bytes \o BytesOf(Tail(w))

InitWire ==
    /\ InitServer
    /\ InitRequest
    /\ wire \in Wires
    /\ stream = BytesOf(wire)
    /\ probe = None
    /\ InitLocks
    /\ InitResp
    /\ InitMain
    /\ overflow_checks = TRUE

\* One turn of the session loop of the observed connection: read_command,
\* then process_command; an Err or a panic of read_command ends the session.
ReadAndProcess ==
    /\ pc[Observed] = "read"
    /\ LET r == read_command(stream)
       IN  /\ stream' = r.stream
           /\ request' = [command |-> IF r.kind = "ok" THEN r.command ELSE request.command,
                          result |-> r.kind]
           /\ nread' = nread + 1
           /\ wire' = wire
           /\ UNCHANGED xvars
           /\ IF r.kind = "ok"
              THEN ProcessCommand(Observed, r.command)
              ELSE IF r.kind = "panic"
              THEN Die(Observed) /\ UNCHANGED <<now, bvars>>
              ELSE Close(Observed) /\ UNCHANGED <<now, bvars>>

\* The other connection sends a command.
OtherCommand ==
    /\ \E c \in Conns \ {Observed} : \E command \in Inputs(c) : ProcessCommand(c, command)
    /\ UNCHANGED <<rvars, xvars>>

NextWire ==
    \/ ReadAndProcess
    \/ Replay(Observed)
    \/ IncrInsert(Observed)
    \/ OtherCommand

SpecWire == InitWire /\ [][NextWire]_vars

\* ------------------------------------------------- the batch writer (resp.rs)
\* Response of resp.rs: exec_command runs a whole vector of commands
\* against the keyspace, collects one ResponseType per command, pushes their
\* encodings onto Response.buffer and calls send.

ResponseType(type, content) == [type |-> type, content |-> content]

\* The second loop of exec_command: push_simple_string, push_bulk_string,
\* push_null_bulk_string, push_integer, push_simple_error.
Push(resp) ==
    CASE resp.type = "SimpleString" -> SimpleString(resp.content)
      [] resp.type = "BulkString" -> BulkString(resp.content)
      [] resp.type = "NullBulkString" -> NullBulkString
      [] resp.type = "Integer" -> Integer(resp.content)
      [] resp.type = "SimpleError" -> SimpleError(resp.content)

RespOk(its, resp) == [items |-> its, resps |-> <<resp>>, panic |-> FALSE]

RespPanic(its) == [items |-> its, resps |-> <<>>, panic |-> TRUE]

\* items.read().unwrap() and items.write().unwrap() panic on a poisoned lock.
RespLocked(its, r) == IF poisoned THEN RespPanic(its) ELSE r

\* One turn of the first loop of exec_command.
resp_command(command, its, t) ==
    CASE command.name = "COMMAND" -> RespOk(its, ResponseType("SimpleString", ""))
      [] command.name = "PING" -> RespOk(its, ResponseType("SimpleString", "PONG"))
      [] command.name = "ECHO" ->
            IF command.args = <<>>
            THEN RespOk(its, ResponseType("SimpleError",
                                          "ERR wrong number of arguments for 'echo' command"))
            ELSE RespOk(its, ResponseType("BulkString", command.args[1]))
      [] command.name = "SET" ->
            IF Len(command.args) < 2
            THEN RespOk(its, ResponseType("SimpleError",
                                          "ERR wrong number of arguments for 'set' command"))
            ELSE LET key == command.args[1]
                     val == command.args[2]
                 IN  IF Len(command.args) > 2
                     THEN IF ToUppercase(command.args[3]) = <<"P", "X">>
                          THEN LET expire_mills == IF Len(command.args) >= 4
                                                   THEN ParseU64(command.args[4])
                                                   ELSE None
                               IN  IF IsSome(expire_mills)
                                   THEN RespLocked(its,
                                            RespOk(insert(its, key, KvItemNew(val, expire_mills, t)),
                                                   ResponseType("SimpleString", "OK")))
                                   ELSE RespOk(its, ResponseType("SimpleError",
                                                                 "ERR invalid expire time"))
                          ELSE RespOk(its, ResponseType("SimpleError",
                                                        "ERR unknown option for 'set' command"))
                     ELSE RespLocked(its, RespOk(insert(its, key, KvItemNew(val, None, t)),
                                                 ResponseType("SimpleString", "OK")))
      [] command.name = "GET" ->
            IF command.args = <<>>
            THEN RespOk(its, ResponseType("SimpleError",
                                          "ERR wrong number of arguments for 'get' command"))
            ELSE LET item == get_clone(its, command.args[1], t)
                 IN  RespLocked(its,
                         IF IsSome(item)
                         THEN RespOk(its, ResponseType("BulkString", Unwrap(item).val))
                         ELSE RespOk(its, ResponseType("NullBulkString", "")))
      [] command.name = "INCR" ->
            IF command.args = <<>>
            THEN RespOk(its, ResponseType("SimpleError",
                                          "ERR wrong number of arguments for 'incr' command"))
            ELSE LET key == command.args[1]
                     item == get_clone(its, key, t)
                 IN  RespLocked(its,
                         IF IsSome(item)
                         THEN LET parsed == ParseI64(Unwrap(item).val)
                              IN  IF IsSome(parsed)
                                  THEN LET num == AddOne(Unwrap(parsed))
                                       IN  IF num.ok
                                           THEN RespOk(insert(its, key,
                                                              KvItemNew(to_string(num.num), None, t)),
                                                       ResponseType("Integer", num.num))
                                           ELSE RespPanic(its)
                                  ELSE RespOk(its, ResponseType("SimpleError",
                                                                "ERR value is not an integer"))
                         ELSE RespOk(insert(its, key, KvItemNew(<<"1">>, None, t)),
                                     ResponseType("Integer", 1)))
      [] command.name = "MULTI" -> RespPanic(its)
      [] command.name = "EXEC" -> RespOk(its, ResponseType("SimpleError", "ERR EXEC without MULTI"))
      [] OTHER -> RespOk(its, ResponseType("SimpleError", "ERR unknown command"))

\* The first loop of exec_command over the commands it was given.
RECURSIVE resp_commands(_, _, _)
resp_commands(cs, its, t) ==
    IF cs = <<>>
    THEN [items |-> its, resps |-> <<>>, panic |-> FALSE]
    ELSE LET r == resp_command(Head(cs), its, t)
         IN  IF r.panic
             THEN RespPanic(r.items)
             ELSE LET rest == resp_commands(Tail(cs), r.items, t)
                  IN  [items |-> rest.items,
                       resps |-> IF rest.panic THEN <<>> ELSE r.resps \o rest.resps,
                       panic |-> rest.panic]

\* Response::send: write_all of the whole buffer, then flush; the buffer
\* is left as it is.
send(buf) == [written |-> buf, buffer |-> buf]

RespInputs ==
    {Command("PING", <<>>),
     Command("ECHO", <<<<"h", "i">>>>),
     Command("SET", <<K, <<"5">>>>),
     Command("SET", <<K, <<"5">>, <<"p", "x">>, <<"2">>>>),
     Command("GET", <<K>>),
     Command("INCR", <<K>>),
     Command("MULTI", <<>>)}

\* The vectors of commands a caller hands to exec_command.
Batches == UNION {[1..n -> RespInputs] : n \in 1..MaxBatch}

\* Response::exec_command(commands, kv_store).
RespExec(cs) ==
    /\ resp_pc = "ready"
    /\ resp_calls < MaxCalls
    /\ resp_calls' = resp_calls + 1
    /\ LET r == resp_commands(cs, items, now)
           pushed == [i \in 1..Len(r.resps) |-> Push(r.resps[i])]
           s == send(resp_buffer \o pushed)
       IN  /\ items' = r.items
           /\ IF r.panic
              THEN /\ resp_pc' = "panicked"
                   /\ UNCHANGED <<resp_buffer, resp_sent, resp_own>>
              ELSE /\ resp_buffer' = s.buffer
                   /\ resp_sent' = s.written
                   /\ resp_own' = pushed
                   /\ resp_pc' = resp_pc
    /\ UNCHANGED <<now, state, commands, buffer, sent, pc, run, pending, cur, hist, snap>>
    /\ UNCHANGED <<rvars, bvars, probe, store_lock, map_lock, lk, job, mvars>>

NextResp ==
    \/ Tick
    \/ \E cs \in Batches : RespExec(cs)

SpecResp == Init /\ [][NextResp]_vars

\* -------------------------------------------- the single-file server (main.rs)
\* main.rs: one thread per connection, all sharing KV.kvs behind a Mutex.
\* Request::parse reads one frame and parse_command handles it, writing and
\* flushing each reply as it is produced.  A panic ends the thread; a panic
\* while the MutexGuard is alive poisons the Mutex.

\* Value::new.
ValueNew(val, expire_mills, t) ==
    [val |-> val,
     expire_at |-> IF IsSome(expire_mills) THEN Some(t + Unwrap(expire_mills)) ELSE None]

\* The record of key in the map, if any.
Stored(map, key) == IF key \in DOMAIN map THEN Some(map[key]) ELSE None

\* HashMap::remove.
remove(map, key) == [x \in (DOMAIN map) \ {key} |-> map[x]]

\* KV::get_del up to its callback: the argument the callback is called with,
\* whether the record is deleted afterwards, and the returned flag.
get_del(map, key, t) ==
    IF key \in DOMAIN map
    THEN IF IsSome(map[key].expire_at)
         THEN IF Unwrap(map[key].expire_at) > t
              THEN [cb_arg |-> Some(map[key]), del |-> FALSE, ret |-> FALSE]
              ELSE [cb_arg |-> None, del |-> TRUE, ret |-> TRUE]
         ELSE [cb_arg |-> Some(map[key]), del |-> FALSE, ret |-> TRUE]
    ELSE [cb_arg |-> None, del |-> FALSE, ret |-> FALSE]

\* Request::parse_set_arg over the arguments after the value: the expiry it
\* leaves in the Value, or a panic on an option other than PX, on a
\* millisecond count that is no number and on a PX that ends the frame
\* (the next read_bulk_string fails its assertions).
RECURSIVE parse_set_arg(_, _, _)
parse_set_arg(opts, expire_at, t) ==
    IF opts = <<>>
    THEN [ok |-> TRUE, expire_at |-> expire_at]
    ELSE IF ToUppercase(trim(Head(opts))) = <<"P", "X">>
         THEN IF Len(opts) >= 2 /\ IsSome(ParseU64(trim(opts[2])))
              THEN parse_set_arg(Tail(Tail(opts)), Some(t + Unwrap(ParseU64(trim(opts[2])))), t)
              ELSE [ok |-> FALSE, expire_at |-> expire_at]
         ELSE [ok |-> FALSE, expire_at |-> expire_at]

\* What one lock scope of a handler leaves: the map, the frames written,
\* whether the thread panicked and whether it did so holding the guard,
\* and whether the handler goes on to KV::set.
MainResult(map, frames, panic, poison, more) ==
    [kvs |-> map, frames |-> frames, panic |-> panic, poison |-> poison, more |-> more]

MainOk(map, frames) == MainResult(map, frames, FALSE, FALSE, FALSE)

MainPanic(map) == MainResult(map, <<>>, TRUE, FALSE, FALSE)

\* kvs.lock().unwrap() panics on a poisoned Mutex.
MainLocked(map, r) == IF kvs_poisoned THEN MainPanic(map) ELSE r

\* get_cb of GET.
get_cb(val) == IF IsSome(val) THEN <<BulkString(Unwrap(val).val)>> ELSE <<NullBulkString>>

\* incr_cb of INCR: the new payload and the frames written, or a panic on a
\* payload that is no i64 and on an overflowing sum.
incr_cb(val) ==
    IF IsSome(val)
    THEN LET parsed == ParseI64(Unwrap(val).val)
         IN  IF IsSome(parsed)
             THEN LET num == AddOne(Unwrap(parsed))
                  IN  IF num.ok
                      THEN [panic |-> FALSE, val |-> Some(to_string(num.num)),
                            frames |-> <<Integer(num.num)>>]
                      ELSE [panic |-> TRUE, val |-> None, frames |-> <<>>]
             ELSE [panic |-> TRUE, val |-> None, frames |-> <<>>]
    ELSE [panic |-> FALSE, val |-> None, frames |-> <<>>]

\* Request::parse_command up to the end of its first lock scope.
parse_command(cmd, map, t) ==
    CASE cmd.name = "PING" -> MainOk(map, <<SimpleString("PONG")>>)
      [] cmd.name = "ECHO" -> MainOk(map, <<BulkString(trim(cmd.args[1]))>>)
      [] cmd.name = "SET" ->
            LET key == trim(cmd.args[1])
                val == trim(cmd.args[2])
                parsed == parse_set_arg(Tail(Tail(cmd.args)), None, t)
            IN  IF parsed.ok
                THEN MainLocked(map,
                         MainOk(insert(map, key, [val |-> val, expire_at |-> parsed.expire_at]),
                                <<SimpleString("OK")>>))
                ELSE MainPanic(map)
      [] cmd.name = "GET" ->
            LET key == trim(cmd.args[1])
                g == get_del(map, key, t)
            IN  MainLocked(map,
                    MainOk(IF g.del THEN remove(map, key) ELSE map, get_cb(g.cb_arg)))
      [] cmd.name = "INCR" ->
            LET key == trim(cmd.args[1])
                g == get_del(map, key, t)
                r == incr_cb(g.cb_arg)
                written == IF IsSome(r.val)
                           THEN [map EXCEPT ![key].val = Unwrap(r.val)]
                           ELSE map
            IN  MainLocked(map,
                    IF r.panic
                    THEN MainResult(map, <<>>, TRUE, TRUE, FALSE)
                    ELSE MainResult(IF g.del THEN remove(written, key) ELSE written,
                                    r.frames, FALSE, FALSE, ~g.ret))
      [] OTHER -> MainPanic(map)

MainInputs(c) ==
    IF c = Observed
    THEN {Command("SET", <<K, <<"5">>>>),
          Command("SET", <<K, <<"5">>, <<"p", "x">>, <<"2">>>>),
          Command("SET", <<K, <<"a", "b", "c">>>>),
          Command("SET", <<K, <<"5">>, <<"n", "x">>>>),
          Command("GET", <<K>>),
          Command("INCR", <<K>>),
          Command("FOO", <<>>)}
    ELSE {Command("SET", <<K, <<"7">>>>),
          Command("GET", <<K>>),
          Command("INCR", <<K>>)}

\* The counter of the key is below the cap.
BelowCap(map, key) ==
    (key \in DOMAIN map /\ IsSome(ParseI64(map[key].val)))
        => Unwrap(ParseI64(map[key].val)) < MaxCount

\* The thread of c has read a frame and runs parse_command on it.
MainCommand(c, cmd) ==
    /\ mpc[c] = "read"
    /\ cmd.name = "INCR" => BelowCap(kvs, trim(cmd.args[1]))
    /\ LET r == parse_command(cmd, kvs, now)
           key == IF cmd.args = <<>> THEN K ELSE trim(cmd.args[1])
       IN  /\ kvs' = r.kvs
           /\ kvs_poisoned' = (kvs_poisoned \/ r.poison)
           /\ mcmd' = [mcmd EXCEPT ![c] = Some(cmd)]
           /\ mreply' = [mreply EXCEPT ![c] = r.frames]
           /\ mpc' = [mpc EXCEPT ![c] = IF r.panic THEN "panicked"
                                        ELSE IF r.more THEN "set" ELSE "read"]
           /\ mobs' = [mobs EXCEPT ![c] = [pre |-> Stored(kvs, key),
                                           cb_arg |-> get_del(kvs, key, now).cb_arg,
                                           post |-> Stored(r.kvs, key)]]
    /\ UNCHANGED <<now, items, state, commands, buffer, sent, pc, run, pending, cur, hist, snap>>
    /\ UNCHANGED <<rvars, bvars, probe, store_lock, map_lock, lk, job, wvars>>

\* INCR after get_del has returned false: KV::set of "1" and the reply 1.
MainSet(c) ==
    /\ mpc[c] = "set"
    /\ LET key == trim(Unwrap(mcmd[c]).args[1])
       IN  IF kvs_poisoned
           THEN /\ mpc' = [mpc EXCEPT ![c] = "panicked"]
                /\ UNCHANGED <<kvs, mreply, mobs>>
           ELSE /\ kvs' = insert(kvs, key, ValueNew(<<"1">>, None, now))
                /\ mreply' = [mreply EXCEPT ![c] = Append(@, Integer(1))]
                /\ mpc' = [mpc EXCEPT ![c] = "read"]
                /\ mobs' = [mobs EXCEPT ![c].post = Stored(kvs', key)]
    /\ UNCHANGED <<kvs_poisoned, mcmd>>
    /\ UNCHANGED <<now, items, state, commands, buffer, sent, pc, run, pending, cur, hist, snap>>
    /\ UNCHANGED <<rvars, bvars, probe, store_lock, map_lock, lk, job, wvars>>

NextMain ==
    \/ Tick
    \/ \E c \in Conns : \E cmd \in MainInputs(c) : MainCommand(c, cmd)
    \/ \E c \in Conns : MainSet(c)

SpecMain == Init /\ [][NextMain]_vars

\* ============================================================== properties

\* The observed connection is between two commands: the last handler has
\* returned and its reply has been sent.
AtRest == pc[Observed] = "read"

Reply == sent[Observed]

LastE == hist[Len(hist)]

PrevE == hist[Len(hist) - 1]

\* The last handled command was executed directly and is named name.
LastIs(name) ==
    AtRest /\ Len(hist) >= 1 /\ LastE.mode = "Exec" /\ LastE.cmd.name = name

\* The last two handled commands were executed directly, one after the
\* other, and are named first and second.
LastTwoAre(first, second) ==
    /\ LastIs(second)
    /\ Len(hist) = 2
    /\ PrevE.mode = "Exec"
    /\ PrevE.cmd.name = first

\* SET key value, without option.
IsPlainSet(e) == e.cmd.name = "SET" /\ Len(e.cmd.args) = 2

\* SET key value PX millis, with millis a number.
IsPxSet(e) ==
    /\ e.cmd.name = "SET"
    /\ Len(e.cmd.args) = 4
    /\ ToUppercase(e.cmd.args[3]) = <<"P", "X">>
    /\ IsSome(ParseU64(e.cmd.args[4]))

PxOf(e) == Unwrap(ParseU64(e.cmd.args[4]))

\* The record a GET or INCR found was live when the command ran.
FoundLive(e) ==
    /\ IsSome(e.pre)
    /\ IsSome(Unwrap(e.pre).expire_at) => Unwrap(Unwrap(e.pre).expire_at) > e.at

\* The live record a GET or INCR found holds the canonical decimal of an integer.
FoundInteger(e) ==
    /\ FoundLive(e)
    /\ IsSome(ParseI64(Unwrap(e.pre).val))
    /\ to_string(Unwrap(ParseI64(Unwrap(e.pre).val))) = Unwrap(e.pre).val

FoundNumber(e) == Unwrap(ParseI64(Unwrap(e.pre).val))

\* C1: SET K V without expiry followed by GET K on the same connection,
\* with no other writer in between, is answered with the bulk string V.
C1_SetThenGet ==
    (LastTwoAre("SET", "GET") /\ IsPlainSet(PrevE) /\ LastE.cmd.args[1] = PrevE.cmd.args[1])
        => Reply = <<BulkString(PrevE.cmd.args[2])>>

\* C2: after SET K V PX m at instant t, a GET K before t+m is answered with
\* the bulk string V and a GET K after t+m with the null bulk string.
C2_TtlExpiry ==
    (LastTwoAre("SET", "GET") /\ IsPxSet(PrevE) /\ LastE.cmd.args[1] = PrevE.cmd.args[1])
        => /\ LastE.at < PrevE.at + PxOf(PrevE) => Reply = <<BulkString(PrevE.cmd.args[2])>>
           /\ LastE.at > PrevE.at + PxOf(PrevE) => Reply = <<NullBulkString>>

\* C3: INCR K on a live record with payload str(n) is answered with the
\* integer n+1, a GET K that follows is answered with str(n+1), and two
\* INCRs in a row on an absent key are answered 1 and then 2.
C3_IncrAddsOne ==
    /\ (LastIs("INCR") /\ FoundInteger(LastE))
            => Reply = <<Integer(FoundNumber(LastE) + 1)>>
    /\ (LastTwoAre("INCR", "GET") /\ FoundInteger(PrevE)
            /\ LastE.cmd.args[1] = PrevE.cmd.args[1])
            => Reply = <<BulkString(to_string(FoundNumber(PrevE) + 1))>>
    /\ (LastTwoAre("INCR", "INCR") /\ PrevE.pre = None)
            => Reply = <<Integer(2)>>

\* C4: INCR K on an absent or expired record installs "1" without expiry and
\* is answered with the integer 1; a GET K that follows is answered "1".
C4_IncrCreates ==
    /\ (LastIs("INCR") /\ ~FoundLive(LastE))
            => /\ Reply = <<Integer(1)>>
               /\ LastE.cmd.args[1] \in DOMAIN items
               /\ items[LastE.cmd.args[1]] = [val |-> <<"1">>, expire_at |-> None]
    /\ (LastTwoAre("INCR", "GET") /\ ~FoundLive(PrevE)
            /\ LastE.cmd.args[1] = PrevE.cmd.args[1])
            => Reply = <<BulkString(<<"1">>)>>

\* C5: INCR K on a live record whose payload is no integer is answered with
\* the error 'ERR value is not an integer or out of range' and leaves the
\* record as it was, so a GET K that follows still returns the payload.
C5_IncrErrorKeepsRecord ==
    /\ (LastIs("INCR") /\ FoundLive(LastE) /\ ParseI64(Unwrap(LastE.pre).val) = None)
            => /\ Reply = <<SimpleError("ERR value is not an integer or out of range")>>
               /\ LastE.cmd.args[1] \in DOMAIN items
               /\ items[LastE.cmd.args[1]] = Unwrap(LastE.pre)
    /\ (LastTwoAre("INCR", "GET") /\ FoundLive(PrevE)
            /\ ParseI64(Unwrap(PrevE.pre).val) = None
            /\ LastE.cmd.args[1] = PrevE.cmd.args[1]
            /\ FoundLive(LastE))
            => Reply = <<BulkString(Unwrap(PrevE.pre).val)>>

\* C6: the reply to EXEC after n queued non-transactional commands is the
\* array header *n followed by exactly n element replies, and each queued
\* command was answered +QUEUED.
C6_ExecReplies ==
    /\ (AtRest /\ Len(hist) >= 1 /\ LastE.mode = "Queue"
            /\ LastE.cmd.name \notin {"MULTI", "EXEC", "DISCARD"})
            => Reply = <<SimpleString("QUEUED")>>
    /\ (AtRest /\ Len(hist) >= 1 /\ IsBatch(LastE)
            /\ \A i \in 1..Len(LastE.batch) : LastE.batch[i].name # "MULTI")
            => /\ Len(Reply) = Len(LastE.batch) + 1
               /\ Reply[1] = ArrayHeader(Len(LastE.batch))

\* C7: DISCARD in a transaction is answered +OK, leaves the keyspace as the
\* MULTI found it, drops the queue and puts the session back in Exec mode:
\* the next command is executed directly, and a later MULTI starts with an
\* empty queue, so that no discarded command can be replayed.
C7_Discard ==
    /\ (AtRest /\ Len(hist) >= 1 /\ LastE.cmd.name = "DISCARD" /\ LastE.mode = "Queue")
            => /\ Reply = <<SimpleString("OK")>>
               /\ state[Observed] = "Exec"
               /\ commands[Observed] = None
               /\ run[Observed] = <<>>
               /\ buffer[Observed] = <<>>
               /\ IsSome(snap) => items = Unwrap(snap)
    /\ (AtRest /\ Len(hist) = 2 /\ PrevE.cmd.name = "DISCARD" /\ PrevE.mode = "Queue")
            => /\ LastE.mode = "Exec"
               /\ Reply # <<SimpleString("QUEUED")>>
               /\ commands[Observed] = None
    /\ LastIs("MULTI") => commands[Observed] = Some(<<>>)

\* A transaction with a queued SET on an empty keyspace was discarded and
\* no other connection wrote in the meantime.
C7_Witness ==
    /\ AtRest
    /\ Len(hist) = 2
    /\ PrevE.cmd.name = "SET" /\ PrevE.mode = "Queue"
    /\ LastE.cmd.name = "DISCARD" /\ LastE.mode = "Queue"
    /\ IsSome(snap)
    /\ items = <<>>

\* C8: a successful INCR on a live record that SET K n PX m stored keeps
\* the expiry instant fixed by the SET.
C8_IncrKeepsExpiry ==
    (LastTwoAre("SET", "INCR") /\ IsPxSet(PrevE) /\ LastE.cmd.args[1] = PrevE.cmd.args[1]
        /\ FoundInteger(LastE) /\ Reply = <<Integer(FoundNumber(LastE) + 1)>>)
        => /\ LastE.cmd.args[1] \in DOMAIN items
           /\ items[LastE.cmd.args[1]].expire_at = Some(PrevE.at + PxOf(PrevE))

\* C9: MULTI inside a transaction is answered with the error 'ERR MULTI
\* calls can not be nested', the session stays in Queue mode and MULTI is
\* not added to the queue.
C9_NestedMulti ==
    (AtRest /\ Len(hist) >= 1 /\ LastE.cmd.name = "MULTI" /\ LastE.mode = "Queue")
        => /\ Reply = <<SimpleError("ERR MULTI calls can not be nested")>>
           /\ state[Observed] = "Queue"
           /\ IsSome(commands[Observed])
           /\ \A i \in 1..Len(Unwrap(commands[Observed])) :
                  Unwrap(commands[Observed])[i].name # "MULTI"

WithoutMulti(name) ==
    IF name = "EXEC" THEN "ERR EXEC without MULTI" ELSE "ERR DISCARD without MULTI"

\* C10: in Exec mode EXEC is answered '-ERR EXEC without MULTI' and DISCARD
\* '-ERR DISCARD without MULTI'; the session stays in Exec mode without a
\* queue and the keyspace is unchanged.
C10_WithoutMulti ==
    [][\A c \in Conns : \A name \in {"EXEC", "DISCARD"} :
          (state[c] = "Exec" /\ ProcessCommand(c, Command(name, <<>>)))
              => /\ sent'[c] = <<SimpleError(WithoutMulti(name))>>
                 /\ state'[c] = "Exec"
                 /\ commands[c] = None
                 /\ commands'[c] = None
                 /\ pc'[c] = "read"
                 /\ items' = items]_vars

\* EXEC was sent outside a transaction, on a keyspace that holds a record.
C10_Witness ==
    /\ LastIs("EXEC")
    /\ Reply = <<SimpleError("ERR EXEC without MULTI")>>
    /\ state[Observed] = "Exec"
    /\ K \in DOMAIN items

\* C11: in Queue mode a command other than EXEC leaves the keyspace as it
\* is; it is appended to the queue and answered +QUEUED, or, for DISCARD,
\* answered +OK, and nothing else of the session changes.
C11_QueueModeFrame ==
    [][\A c \in Conns : \A command \in Inputs(c) :
          (state[c] = "Queue" /\ command.name # "EXEC" /\ ProcessCommand(c, command))
              => /\ items' = items
                 /\ pc'[c] = "read"
                 /\ buffer'[c] = <<>>
                 /\ run' = run
                 /\ pending' = pending
                 /\ IF command.name = "DISCARD"
                    THEN /\ sent'[c] = <<SimpleString("OK")>>
                         /\ commands'[c] = None
                         /\ state'[c] = "Exec"
                    ELSE /\ sent'[c] = <<SimpleString("QUEUED")>>
                         /\ commands'[c] = Some(Append(Unwrap(commands[c]), command))
                         /\ state'[c] = "Queue"]_vars

\* A SET and an INCR are queued and the keyspace is still empty.
C11_Witness ==
    /\ AtRest
    /\ state[Observed] = "Queue"
    /\ IsSome(commands[Observed])
    /\ Len(Unwrap(commands[Observed])) = 2
    /\ Unwrap(commands[Observed])[1].name = "SET"
    /\ Unwrap(commands[Observed])[2].name = "INCR"
    /\ Reply = <<SimpleString("QUEUED")>>
    /\ items = <<>>

\* C12: every handled command writes at least one reply frame before the
\* flush that ends it, and the flush of an EXEC batch of n queued commands
\* carries the header and n element replies.
C12_ReplyPerCommand ==
    /\ (AtRest /\ Len(hist) >= 1) => Len(Reply) >= 1
    /\ (AtRest /\ Len(hist) >= 1 /\ IsBatch(LastE))
            => Len(Reply) = 1 + Len(LastE.batch)
    /\ \A c \in Conns : pc[c] = "read" => buffer[c] = <<>>

\* A directly executed INCR of connection c has read the record and has
\* not yet written the number back.
IncrInFlight(c) ==
    /\ pc[c] = "insert"
    /\ run[c] = <<>>
    /\ IsSome(cur[c])
    /\ Unwrap(cur[c]).mode = "Exec"
    /\ Unwrap(cur[c]).cmd.name = "INCR"

\* The number held by the record an in-flight INCR found; 0 when absent.
FoundOrZero(e) == IF IsSome(e.pre) THEN FoundNumber(e) ELSE 0

\* C13: two connections that INCR the same key concurrently, the key being
\* absent or holding a live integer n, are answered n+1 and n+2: whenever
\* both have read the record and neither has written yet, the two numbers
\* they are about to store and reply are n+1 and n+2.
C13_IncrLinearizable ==
    \A c \in Conns : \A d \in Conns \ {c} :
        (/\ IncrInFlight(c)
         /\ IncrInFlight(d)
         /\ Unwrap(pending[c]).key = Unwrap(pending[d]).key
         /\ Unwrap(cur[c]).pre = Unwrap(cur[d]).pre
         /\ IsSome(Unwrap(cur[c]).pre) => FoundInteger(Unwrap(cur[c])))
            => {Unwrap(pending[c]).num, Unwrap(pending[d]).num}
                   = {FoundOrZero(Unwrap(cur[c])) + 1, FoundOrZero(Unwrap(cur[c])) + 2}

\* The record the other connection writes: SET k 7 px 2.
IsOthersRecord(item) == item.val = <<"7">> /\ IsSome(item.expire_at)

\* The observed connection is replaying the batch SET k 5 ; GET k, has
\* replayed the SET and is about to replay the GET.
BetweenSetAndGet ==
    /\ pc[Observed] = "replay"
    /\ IsSome(cur[Observed])
    /\ Len(Unwrap(cur[Observed]).batch) = 2
    /\ Unwrap(cur[Observed]).batch[1].name = "SET"
    /\ Unwrap(cur[Observed]).batch[1].args[2] = <<"5">>
    /\ run[Observed] = <<Command("GET", <<K>>)>>

\* C14: a write of another connection that lands between two commands of
\* one EXEC batch is visible to the later one: when the batch SET k 5 ;
\* GET k has replayed its SET and the other connection's live record "7" is
\* in the keyspace, the GET of the batch is answered "7".
C14_ReplayNotIsolated ==
    [][(/\ BetweenSetAndGet
        /\ K \in DOMAIN items
        /\ IsOthersRecord(items[K])
        /\ Unwrap(items[K].expire_at) > now
        /\ Replay(Observed))
          => /\ sent'[Observed] = buffer[Observed] \o <<BulkString(<<"7">>)>>
             /\ pc'[Observed] = "read"]_vars

\* The batch SET k 5 ; GET k was answered with the other connection's "7".
C14_Witness ==
    /\ AtRest
    /\ Len(hist) >= 1
    /\ IsBatch(LastE)
    /\ LastE.batch = <<Command("SET", <<K, <<"5">>>>), Command("GET", <<K>>)>>
    /\ Reply = <<ArrayHeader(2), SimpleString("OK"), BulkString(<<"7">>)>>

\* The record a GET or INCR found had an expiry that had passed.
FoundExpired(e) ==
    /\ IsSome(e.pre)
    /\ IsSome(Unwrap(e.pre).expire_at)
    /\ Unwrap(Unwrap(e.pre).expire_at) <= e.at

\* C15: an expired record is indistinguishable from an absent one: a GET
\* that finds one is answered with the null bulk string and an INCR with
\* the integer 1, like on an absent key, under every interleaving.
C15_ExpiredIsAbsent ==
    /\ (LastIs("GET") /\ FoundExpired(LastE)) => Reply = <<NullBulkString>>
    /\ (LastIs("INCR") /\ FoundExpired(LastE)) => Reply = <<Integer(1)>>

\* The command a well-formed frame spells.
Spelled(els) == Command(Join(ToUppercase(els[1])), Tail(els))

\* The frames read so far were all well-formed.
ReadWellFormed ==
    /\ nread >= 1
    /\ nread <= Len(wire)
    /\ \A i \in 1..nread : ~wire[i].malformed

\* No element of the first n frames is empty.
NoEmptyElement(n) ==
    \A i \in 1..n : \A j \in 1..Len(wire[i].els) : wire[i].els[j] # <<>>

\* No element of the first n frames contains whitespace.
NoWhitespaceInside(n) ==
    \A i \in 1..n : \A j \in 1..Len(wire[i].els) :
        \A k \in 1..Len(wire[i].els[j]) : wire[i].els[j][k] \notin Whitespace

\* C16: every well-formed frame decodes to the command it spells: the
\* upper-cased first element as name and the remaining elements, byte for
\* byte, as arguments.
C16_ReaderDecodes ==
    (ReadWellFormed /\ NoEmptyElement(nread))
        => /\ request.result = "ok"
           /\ request.command = Spelled(wire[nread].els)

\* C17: a frame with an empty element is accepted and yields an empty
\* argument, and after well-formed frames the reader stands at the first
\* byte of the next frame.
C17_ReaderPosition ==
    (ReadWellFormed /\ NoWhitespaceInside(nread))
        => /\ request.result = "ok"
           /\ Len(request.command.args) = Len(wire[nread].els) - 1
           /\ stream = BytesOf(SubSeq(wire, nread + 1, Len(wire)))

\* C18: a malformed frame ends the session of its connection without a
\* reply and without touching the keyspace.
C18_MalformedEndsSession ==
    (/\ nread = 1
     /\ Len(wire) = 1
     /\ wire[1].malformed)
        => /\ request.result \in {"err", "panic"}
           /\ pc[Observed] \in {"closed", "panicked"}
           /\ sent[Observed] = <<>>
           /\ K \in DOMAIN items => items[K].val = <<"7">>

\* The frames are one simple error.
IsSimpleError(frames) == Len(frames) = 1 /\ frames[1][1] = "-"

\* C19: a command that exec_command answers with a simple error leaves the
\* keyspace, the mode and the queue of the session as they were, and the
\* session goes on to read the next command.
C19_ErrorChangesNothing ==
    [][\A command \in ErrInputs :
          (/\ state[Observed] = "Exec"
           /\ IsSimpleError(exec_command(command, "Exec", items, now).frames)
           /\ ProcessCommand(Observed, command))
              => /\ sent'[Observed] = exec_command(command, "Exec", items, now).frames
                 /\ items' = items
                 /\ state' = state
                 /\ commands' = commands
                 /\ pc'[Observed] = "read"
                 /\ buffer'[Observed] = <<>>]_vars

\* INCR of a live record that holds no integer was answered with an error
\* and the record is still there.
C19_Witness ==
    /\ LastIs("INCR")
    /\ FoundLive(LastE)
    /\ Unwrap(LastE.pre).val = <<"a", "b", "c">>
    /\ IsSimpleError(Reply)
    /\ items[K] = Unwrap(LastE.pre)
    /\ state[Observed] = "Exec"

\* C20: INFO with another section than replication is answered with the
\* error 'ERR unsupported INFO section' and the session stays open in its
\* mode; INFO replication is answered with the bulk string of the server
\* info.
C20_InfoSections ==
    [][\A command \in ErrInputs :
          (/\ state[Observed] = "Exec"
           /\ command.name = "INFO"
           /\ Len(command.args) = 1
           /\ ProcessCommand(Observed, command))
              => /\ pc'[Observed] = "read"
                 /\ state' = state
                 /\ sent'[Observed] =
                        IF ToLowercase(command.args[1])
                               = <<"r", "e", "p", "l", "i", "c", "a", "t", "i", "o", "n">>
                        THEN <<BulkString(ServerInfoToString)>>
                        ELSE <<SimpleError("ERR unsupported INFO section")>>]_vars

\* The keyspace its with the record item under key and nothing else changed.
Replaced(its, key, item) ==
    /\ DOMAIN items' = (DOMAIN its) \cup {key}
    /\ items'[key] = item
    /\ \A x \in (DOMAIN its) \ {key} : items'[x] = its[x]

\* C21: SET with fewer than two arguments, with an option other than PX, or
\* with PX and a missing or non-numeric value is answered with its error
\* and stores nothing; SET with two arguments, or with PX and a number,
\* replaces the record and is answered +OK.
C21_SetValidation ==
    [][\A command \in ErrInputs :
          (/\ state[Observed] = "Exec"
           /\ command.name = "SET"
           /\ ProcessCommand(Observed, command))
              => LET args == command.args
                     reply == sent'[Observed]
                 IN  IF Len(args) < 2
                     THEN /\ reply = <<SimpleError("ERR wrong number of arguments for 'set' command")>>
                          /\ items' = items
                     ELSE IF Len(args) = 2
                     THEN /\ reply = <<SimpleString("OK")>>
                          /\ Replaced(items, args[1], [val |-> args[2], expire_at |-> None])
                     ELSE IF ToUppercase(args[3]) # <<"P", "X">>
                     THEN /\ reply = <<SimpleError("ERR unknown option for 'set' command")>>
                          /\ items' = items
                     ELSE IF Len(args) < 4 \/ ~AllDigits(args[4])
                     THEN /\ reply = <<SimpleError("ERR invalid expire time")>>
                          /\ items' = items
                     ELSE /\ reply = <<SimpleString("OK")>>
                          /\ Replaced(items, args[1],
                                 [val |-> args[2], expire_at |-> Some(now + DigitsVal(args[4]))])]_vars

\* A SET with an unknown option was rejected and the record of the SET
\* with PX before it is still stored.
C21_Witness ==
    /\ LastTwoAre("SET", "SET")
    /\ IsPxSet(PrevE)
    /\ Len(LastE.cmd.args) = 4
    /\ LastE.cmd.args[3] = <<"E", "X">>
    /\ Reply = <<SimpleError("ERR unknown option for 'set' command")>>
    /\ items[K] = [val |-> PrevE.cmd.args[2], expire_at |-> Some(PrevE.at + PxOf(PrevE))]

\* Every session at a command boundary has a queue exactly in Queue mode.
QueueIffQueueMode ==
    \A c \in Conns : pc[c] = "read" => (state[c] = "Queue" <=> IsSome(commands[c]))

\* C23: a session starts in Exec mode without a queue; at every command
\* boundary it has a queue exactly when it is in Queue mode; MULTI in Exec
\* mode starts an empty queue; EXEC and DISCARD leave no queue behind, and
\* EXEC replays exactly the commands queued since that MULTI.
C23_QueueLifecycle ==
    /\ \A c \in Conns : state[c] = "Exec" /\ commands[c] = None
    /\ []QueueIffQueueMode
    /\ [][\A c \in Conns : \A command \in Inputs(c) :
            ProcessCommand(c, command)
                => /\ (state[c] = "Exec" /\ command.name = "MULTI")
                          => /\ state'[c] = "Queue"
                             /\ commands'[c] = Some(<<>>)
                   /\ (state[c] = "Queue" /\ command.name \in {"EXEC", "DISCARD"})
                          => /\ state'[c] = "Exec"
                             /\ commands'[c] = None
                   /\ (state[c] = "Queue" /\ command.name = "EXEC")
                          => IF Unwrap(commands[c]) = <<>>
                             THEN pc'[c] = "read" /\ sent'[c] = <<ArrayHeader(0)>>
                             ELSE pc'[c] = "replay" /\ run'[c] = Unwrap(commands[c])]_vars

\* A batch of two commands has been executed and the queue is gone.
C23_Witness ==
    /\ AtRest
    /\ Len(hist) >= 1
    /\ IsBatch(LastE)
    /\ Len(LastE.batch) = 2
    /\ state[Observed] = "Exec"
    /\ commands[Observed] = None

\* C25: do_action invokes its callback on every call, with the record when
\* get_clone returns the record and with None when get_clone returns None.
C25_ReadPathsAgree ==
    IsSome(probe)
        => /\ IsSome(Unwrap(probe).call)
           /\ Unwrap(Unwrap(probe).call) = Unwrap(probe).found

\* The key holds i64::MAX in a record whose expiry lies in the future.
HoldsMax ==
    /\ K \in DOMAIN items
    /\ items[K].val = to_string(I64Max)
    /\ IsSome(items[K].expire_at)
    /\ Unwrap(items[K].expire_at) > now

\* C26: INCR on a live record that holds i64::MAX is answered with 'ERR
\* value is not an integer or out of range', leaves the record as it is,
\* does not end the session and leaves the keyspace locks usable.
C26_IncrAtMax ==
    [][(/\ state[Observed] = "Exec"
        /\ HoldsMax
        /\ ~poisoned
        /\ ProcessCommand(Observed, Command("INCR", <<K>>)))
          => /\ sent'[Observed] = <<SimpleError("ERR value is not an integer or out of range")>>
             /\ items' = items
             /\ pc'[Observed] = "read"
             /\ ~poisoned']_vars

\* The thread of c is inside a handler: it has received a command and has
\* not yet sent the reply and dropped its guards.
InHandler(c) == lk[c] # "none" \/ pc[c] \in {"replay", "insert"}

\* The thread of c waits for inbound bytes.
Waiting(c) == pc[c] = "read" /\ lk[c] = "none"

\* A thread holds a guard only at the places where its handler holds it.
GuardsInHandler ==
    \A c \in Conns :
        /\ store_lock = Some(c) <=> lk[c] \in {"store", "both"}
        /\ map_lock = Some(c) <=> lk[c] = "both"

\* C22: a thread holds the keyspace locks only inside a handler, never
\* while it waits for inbound bytes, and every command a thread has
\* received is eventually answered.
C22_LocksAndProgress ==
    /\ []GuardsInHandler
    /\ \A c \in Conns : InHandler(c) ~> Waiting(c)

\* exec_command has returned at least n times on the Response.
RespReturned(n) == resp_pc = "ready" /\ resp_calls >= n

\* C24: send writes and clears the outbound buffer: after a call of
\* exec_command the buffer is empty, and a second call on the same Response
\* transmits the replies of its own commands and nothing of the first call.
C24_SendClears ==
    /\ RespReturned(1) => resp_buffer = <<>>
    /\ RespReturned(2) => resp_sent = resp_own

\* The thread of c in main.rs has finished an INCR.
MainIncrDone(c) ==
    /\ mpc[c] = "read"
    /\ IsSome(mcmd[c])
    /\ Unwrap(mcmd[c]).name = "INCR"

\* The key was absent or held an integer when the command of c began.
MainIntegerBefore(c) ==
    IsSome(mobs[c].pre) => IsSome(ParseI64(Unwrap(mobs[c].pre).val))

\* The number INCR is to reply: 1 for an absent or expired record, n + 1 for
\* a live record holding n.
MainExpected(c) ==
    IF IsSome(mobs[c].cb_arg)
    THEN Unwrap(ParseI64(Unwrap(mobs[c].cb_arg).val)) + 1
    ELSE 1

\* The INCR of c wrote one integer frame and left that number in the key.
MainIncrRight(c) ==
    /\ mreply[c] = <<Integer(MainExpected(c))>>
    /\ IsSome(mobs[c].post)
    /\ Unwrap(mobs[c].post).val = to_string(MainExpected(c))

\* C27: in main.rs every INCR on an absent key or on a key holding an
\* integer (without expiry, with an unexpired or with a passed expiry)
\* writes exactly one integer reply and leaves the replied number stored.
C27_MainIncr ==
    \A c \in Conns : (MainIncrDone(c) /\ MainIntegerBefore(c)) => MainIncrRight(c)

\* The last command of c is one that main.rs fails on: an unknown command,
\* a SET with an option it cannot parse, an INCR on a live record whose
\* payload is no integer.
MainFailed(c) ==
    /\ IsSome(mcmd[c])
    /\ LET cmd == Unwrap(mcmd[c])
       IN  \/ cmd.name \notin {"PING", "ECHO", "SET", "GET", "INCR"}
           \/ cmd.name = "SET" /\ ~parse_set_arg(Tail(Tail(cmd.args)), None, now).ok
           \/ /\ cmd.name = "INCR"
              /\ IsSome(mobs[c].cb_arg)
              /\ ~IsSome(ParseI64(Unwrap(mobs[c].cb_arg).val))

\* C28: in main.rs a failing command ends at most its own connection: the
\* shared map can still be locked, and a thread has ended only through a
\* failing command of its own.
C28_MainFailureIsolated ==
    /\ ~kvs_poisoned
    /\ \A c \in Conns : mpc[c] = "panicked" => MainFailed(c)

====
